---- MODULE Spec2Model ----
(***************************************************************************)
(* Model of the animation / execution engine of src/src/App.tsx: the       *)
(* sprite store, the action-queue store, the frame loop (stepper followed  *)
(* by collision resolution), the action sequencer's timers and the         *)
(* playback controller.                                                    *)
(*                                                                         *)
(* Numbers.  JavaScript numbers are modelled in fixed point: positions and *)
(* sizes carry Unit steps per pixel (resp. per 1.0 of size), velocities    *)
(* Unit steps per pixel-per-second, directions are whole degrees, times    *)
(* are milliseconds.  NaN is a distinguished value outside the integers    *)
(* the model otherwise uses.  Floating-point rounding is not modelled.     *)
(***************************************************************************)
EXTENDS Integers, Sequences, FiniteSets, TLC

VARIABLES
    sprites,            \* useState<Sprite[]>                     (App.tsx:40)
    selectedSprite,     \* useState<string | null>                (App.tsx:41)
    isPlaying,          \* useState(false)                        (App.tsx:42)
    actionBlocks,       \* useState<{[spriteId]: ActionBlock[]}>  (App.tsx:44)
    animationFrameRef,  \* useRef<number>()                       (App.tsx:45)
    frames,             \* frame callbacks requested and not yet run or cancelled
    timers,             \* setTimeout callbacks registered and not yet run
    now,                \* the clock: Date.now() / performance.now(), in ms
    userOps,            \* the number of user operations so far (bounded)
    lastOp,             \* history: the operation that produced this state
    prev,               \* history: the stores just before that operation
    pass,               \* history: the last frame's stepper output and resolved pairs
    fired               \* history: per sprite id, the queue index of the last action
                        \* firing applied to it since playback was started

vars == <<sprites, selectedSprite, isPlaying, actionBlocks, animationFrameRef,
          frames, timers, now, userOps, lastOp, prev, pass, fired>>

-----------------------------------------------------------------------------
(* Program constants and units                                             *)

Unit == 10                    \* fixed-point steps per pixel and per 1.0 of size
BaseSize == 48                \* const size1 = 48 * sprite1.size
DefaultStage == 600           \* clientWidth ?? 600, and height: '600px'
StageWidth == DefaultStage * Unit
StageHeight == DefaultStage * Unit
MsPerSec == 1000              \* (currentTime - lastTime) / 1000
TimeUnit == 1000              \* setTimeout(..., index * 1000) and the 1000 ms delays
SizeFloorDen == 10            \* Math.max(0.1, ...): the floor is 1 / 10
SizeFloor == Unit \div SizeFloorDen
FullTurn == 360               \* % 360
SpawnLo == 100                \* Math.random() * 400 + 100
SpawnSpan == 400
NaN == 0 - 999999             \* the value of 0 * Infinity
Undefined == 0                \* an unset ref / a null selection
NoId == 0 - 1

(* Bounds of the model                                                     *)
MaxSprites == 2
MaxQueue == 1
MaxTicks == 3
MaxUserOps == 4
StageSprites == 3
StageTicks == 2
MaxScaleLen == 3
DecreaseRuns == 11
PairSteps == 2
MaxSeqLen == 2
MaxSeqOps == 1
MaxActLen == 2
MaxDropLen == 2

TickMs == TimeUnit \div 2     \* the clock advances in half time-units

-----------------------------------------------------------------------------
(* Numeric helpers                                                         *)

Abs(v) == IF v < 0 THEN 0 - v ELSE v
Min(a, b) == IF a <= b THEN a ELSE b
Max(a, b) == IF a >= b THEN a ELSE b
IsNaN(v) == v = NaN

\* a / b on reals, truncated to the model's resolution (toward zero)
Quot(a, b) == IF a >= 0 THEN a \div b ELSE 0 - ((0 - a) \div b)

\* Math.sqrt, truncated to the model's resolution
ISqrt(n, hi) == CHOOSE r \in 0..hi : r * r <= n /\ (r + 1) * (r + 1) > n

\* Math.max(0, Math.min(v, hi)); NaN propagates through Math.min / Math.max
Clamp(v, hi) == IF IsNaN(v) THEN NaN ELSE Max(0, Min(v, hi))

\* x + velocity * deltaTime, deltaTime = deltaMs / 1000
Integrate(x, v, deltaMs) == IF IsNaN(x) THEN NaN ELSE x + Quot(v * deltaMs, MsPerSec)

\* if (newX <= 0 || newX >= stageWidth) newVelocityX = -sprite.velocityX
BounceMut(newPos, v, limit) == IF ~IsNaN(newPos) /\ newPos >= limit THEN 0 - v ELSE v
Bounce(newPos, v, limit) ==
    IF ~IsNaN(newPos) /\ (newPos <= 0 \/ newPos >= limit) THEN 0 - v ELSE v

\* Math.max(0.1, sprite.size + action.value)
NewSizeMut(size, value) == size + value
NewSize(size, value) == Max(SizeFloor, size + value)

-----------------------------------------------------------------------------
(* The action-queue store: an object whose keys keep insertion order       *)

Keys(b) == {b[k].key : k \in 1..Len(b)}
Has(b, id) == id \in Keys(b)
KeyIndex(b, id) == CHOOSE k \in 1..Len(b) : b[k].key = id
\* actionBlocks[id] || []
Get(b, id) == IF Has(b, id) THEN b[KeyIndex(b, id)].q ELSE <<>>
\* {...prev, [id]: q}
Put(b, id, q) ==
    IF Has(b, id)
    THEN [k \in 1..Len(b) |-> IF b[k].key = id THEN [key |-> id, q |-> q] ELSE b[k]]
    ELSE Append(b, [key |-> id, q |-> q])

-----------------------------------------------------------------------------
(* Sprites                                                                 *)

\* the sprite literal of addSprite (the presentation-only fields type, thinking
\* and animation are left out)
NewSprite(id, x, y) ==
    [id |-> id, x |-> x, y |-> y, direction |-> 0, saying |-> "", size |-> Unit,
     velocityX |-> 0, velocityY |-> 0, isAnimating |-> FALSE]

\* prev.map(f)
MapSprites(sp, F(_)) == [k \in 1..Len(sp) |-> F(sp[k])]

\* prev.filter(sprite => sprite.id !== id)
RECURSIVE WithoutId(_, _)
WithoutId(sp, id) ==
    IF sp = <<>> THEN <<>>
    ELSE IF Head(sp).id = id THEN WithoutId(Tail(sp), id)
    ELSE <<Head(sp)>> \o WithoutId(Tail(sp), id)

SpriteIds(sp) == {sp[k].id : k \in 1..Len(sp)}

-----------------------------------------------------------------------------
(* Continuous motion stepper: the map inside animate                       *)

StepSpriteMut(s, deltaMs) ==
    LET newX == Integrate(s.x, s.velocityX, deltaMs)
        newY == Integrate(s.y, s.velocityY, deltaMs)
    IN [s EXCEPT !.x = Clamp(newX, StageWidth),
                 !.y = Clamp(newY, StageHeight),
                 !.velocityX = Bounce(newX, s.velocityX, StageWidth),
                 !.velocityY = Bounce(newY, s.velocityY, StageHeight)]
StepSprite(s, deltaMs) ==
    IF ~s.isAnimating THEN s
    ELSE LET newX == Integrate(s.x, s.velocityX, deltaMs)
             newY == Integrate(s.y, s.velocityY, deltaMs)
         IN [s EXCEPT !.x = Clamp(newX, StageWidth),
                      !.y = Clamp(newY, StageHeight),
                      !.velocityX = Bounce(newX, s.velocityX, StageWidth),
                      !.velocityY = Bounce(newY, s.velocityY, StageHeight)]

Stepper(sp, deltaMs) == [k \in 1..Len(sp) |-> StepSprite(sp[k], deltaMs)]

-----------------------------------------------------------------------------
(* Collision resolver                                                      *)

Side(s) == BaseSize * s.size          \* 48 * sprite.size, in position steps
HalfSum(s1, s2) == (Side(s1) + Side(s2)) \div 2

\* comparisons with NaN are false
checkCollision(s1, s2) ==
    /\ ~IsNaN(s1.x) /\ ~IsNaN(s2.x) /\ ~IsNaN(s1.y) /\ ~IsNaN(s2.y)
    /\ Abs(s1.x - s2.x) < HalfSum(s1, s2)
    /\ Abs(s1.y - s2.y) < HalfSum(s1, s2)

\* "Swap velocities": the pair <<velocity of i, velocity of j>> after the swap
SwapVelocitiesMut(si, sj) ==
    <<[x |-> sj.velocityX, y |-> sj.velocityY], [x |-> sj.velocityX, y |-> sj.velocityY]>>
SwapVelocities(si, sj) ==
    <<[x |-> sj.velocityX, y |-> sj.velocityY], [x |-> si.velocityX, y |-> si.velocityY]>>

\* dx * scale / 2 with scale = (minDistance - distance) / distance;
\* distance = 0 gives 0 * Infinity = NaN
ShiftFullMut(d, minDistance, distance) ==
    IF distance = 0 THEN NaN
    ELSE Quot(d * (minDistance - distance), distance)
Shift(d, minDistance, distance) ==
    IF distance = 0 THEN NaN
    ELSE Quot(d * (minDistance - distance), 2 * distance)

Minus(a, b) == IF IsNaN(a) \/ IsNaN(b) THEN NaN ELSE a - b
Plus(a, b) == IF IsNaN(a) \/ IsNaN(b) THEN NaN ELSE a + b

\* "Adjust positions to prevent sticking": <<x_i, y_i, x_j, y_j>> afterwards
Separate(si, sj) ==
    LET dx == sj.x - si.x
        dy == sj.y - si.y
        distance == ISqrt(dx * dx + dy * dy, Abs(dx) + Abs(dy))
        minDistance == HalfSum(si, sj)
    IN IF distance < minDistance
       THEN <<Minus(si.x, Shift(dx, minDistance, distance)),
              Minus(si.y, Shift(dy, minDistance, distance)),
              Plus(sj.x, Shift(dx, minDistance, distance)),
              Plus(sj.y, Shift(dy, minDistance, distance))>>
       ELSE <<si.x, si.y, sj.x, sj.y>>

\* "Swap action blocks": sprite1Actions / sprite2Actions are read from the
\* actionBlocks of the render that created the frame callback (closure),
\* and written with setActionBlocks(prev => ({...prev, ...}))
SwapActionsMut(b, closure, idI, idJ) ==
    Put(Put(b, idI, Get(closure, idJ)), idJ, Get(closure, idJ))
SwapActions(b, closure, idI, idJ) ==
    Put(Put(b, idI, Get(closure, idJ)), idJ, Get(closure, idI))

\* the setTimeout of the collision message
ClearTimer(idI, idJ, t) ==
    [kind |-> "clear", due |-> t + TimeUnit, id |-> idI, id2 |-> idJ,
     type |-> "none", value |-> 0, index |-> 0, last |-> FALSE]

\* the body of the if (checkCollision(...)) for the pair (i, j)
ResolvePair(st, i, j, closure, t) ==
    LET si == st.sp[i]
        sj == st.sp[j]
        v == SwapVelocities(si, sj)
        p == Separate(si, sj)
        ni == [si EXCEPT !.velocityX = v[1].x, !.velocityY = v[1].y,
                         !.x = p[1], !.y = p[2], !.saying = "Swapping!"]
        nj == [sj EXCEPT !.velocityX = v[2].x, !.velocityY = v[2].y,
                         !.x = p[3], !.y = p[4], !.saying = "Bouncing!"]
    IN [sp |-> [st.sp EXCEPT ![i] = ni, ![j] = nj],
        blocks |-> SwapActions(st.blocks, closure, si.id, sj.id),
        newTimers |-> Append(st.newTimers, ClearTimer(si.id, sj.id, t)),
        hit |-> Append(st.hit, <<i, j>>)]

\* the pairs (i, j), i < j, from (i, j) on, in the order of the two for loops
RECURSIVE CollideFrom(_, _, _, _, _)
CollideFrom(st, i, j, closure, t) ==
    LET n == Len(st.sp) IN
    IF i >= n THEN st
    ELSE IF j > n THEN CollideFrom(st, i + 1, i + 2, closure, t)
    ELSE CollideFrom(IF checkCollision(st.sp[i], st.sp[j])
                     THEN ResolvePair(st, i, j, closure, t) ELSE st,
                     i, j + 1, closure, t)

handleCollisions(sp, blocks, closure, t) ==
    CollideFrom([sp |-> sp, blocks |-> blocks, newTimers |-> <<>>, hit |-> <<>>],
                1, 2, closure, t)

-----------------------------------------------------------------------------
(* Frame callbacks and timers                                              *)

Handles(fr) == {f.h : f \in fr}
\* requestAnimationFrame returns a handle no live request and not the ref holds
FreshHandle(fr, ref) ==
    CHOOSE h \in 1..(Cardinality(fr) + 2) : h \notin Handles(fr) /\ h # ref

cancelAnimationFrameMut(fr, h) == fr
cancelAnimationFrame(fr, h) == {f \in fr : f.h # h}

\* requestAnimationFrame(animate) for an animate whose closure holds lastTime
\* and, through handleCollisions, the actionBlocks of its render
Request(fr, ref, lastTime, closure) ==
    fr \cup {[h |-> FreshHandle(fr, ref), lastTime |-> lastTime, closure |-> closure]}

\* The frame-loop effect, re-run because isPlaying or actionBlocks changed:
\* the cleanup of the previous run (it returned one only if it ran while
\* playing), then the body.  The result is <<frames, animationFrameRef>>.
FrameEffectLeakMut(fr, ref, wasPlaying, playing, blocks, t) ==
    IF playing
    THEN <<Request(fr, ref, t, blocks), FreshHandle(fr, ref)>>
    ELSE <<IF wasPlaying /\ ref # Undefined THEN cancelAnimationFrame(fr, ref) ELSE fr, ref>>
FrameEffect(fr, ref, wasPlaying, playing, blocks, t) ==
    LET cleaned == IF wasPlaying /\ ref # Undefined
                   THEN cancelAnimationFrame(fr, ref) ELSE fr
    IN IF playing
       THEN <<Request(cleaned, ref, t, blocks), FreshHandle(cleaned, ref)>>
       ELSE <<cleaned, ref>>

\* actions.forEach((action, index) => setTimeout(..., index * 1000))
ActionTimersLateMut(id, q, t) ==
    [i \in 1..Len(q) |->
        [kind |-> "action", due |-> t + i * TimeUnit, id |-> id, id2 |-> NoId,
         type |-> q[i].type, value |-> q[i].value, index |-> i - 1,
         last |-> (i - 1 = Len(q) - 1)]]
ActionTimersRevMut(id, q, t) ==
    [i \in 1..Len(q) |->
        [kind |-> "action", due |-> t + (Len(q) - i) * TimeUnit, id |-> id, id2 |-> NoId,
         type |-> q[i].type, value |-> q[i].value, index |-> i - 1,
         last |-> (i - 1 = Len(q) - 1)]]
ActionTimers(id, q, t) ==
    [i \in 1..Len(q) |->
        [kind |-> "action", due |-> t + (i - 1) * TimeUnit, id |-> id, id2 |-> NoId,
         type |-> q[i].type, value |-> q[i].value, index |-> i - 1,
         last |-> (i - 1 = Len(q) - 1)]]

\* Object.entries(actionBlocks).forEach(...)
RECURSIVE EntryTimers(_, _)
EntryTimers(b, t) ==
    IF b = <<>> THEN <<>>
    ELSE ActionTimers(Head(b).key, Head(b).q, t) \o EntryTimers(Tail(b), t)

\* The sequencer effect, re-run because isPlaying or actionBlocks changed.
\* It has no cleanup; the result is the timers registered by this run.
SequencerEffectMut(playing, blocks, t) ==
    IF playing THEN EntryTimers(blocks, t) \o EntryTimers(blocks, t) ELSE <<>>
SequencerEffect(playing, blocks, t) ==
    IF playing THEN EntryTimers(blocks, t) ELSE <<>>

\* the setTimeout registered when a sprite's last action has fired
StopTimer(id, t) ==
    [kind |-> "stop", due |-> t + TimeUnit, id |-> id, id2 |-> NoId,
     type |-> "none", value |-> 0, index |-> 0, last |-> FALSE]

\* the next timer to run: the first registered among those that are due
Due(ts, t) == {k \in 1..Len(ts) : ts[k].due <= t}
NextDue(ts, t) == CHOOSE k \in Due(ts, t) : \A m \in Due(ts, t) :
                     ts[k].due < ts[m].due \/ (ts[k].due = ts[m].due /\ k <= m)
RemoveAt(ts, k) == [m \in 1..(Len(ts) - 1) |-> IF m < k THEN ts[m] ELSE ts[m + 1]]

-----------------------------------------------------------------------------
(* The effect of one queued action on its sprite (the switch of the timer) *)

\* JavaScript's %: the result takes the sign of the dividend
JsRem(a, n) == IF a >= 0 THEN a % n ELSE 0 - ((0 - a) % n)

\* Math.cos / Math.sin of (direction - 90) degrees, for quarter turns
CosQ(d) == LET q == ((d % FullTurn) + FullTurn) % FullTurn
           IN IF q = 90 THEN 1 ELSE IF q = 270 THEN 0 - 1 ELSE 0
SinQ(d) == LET q == ((d % FullTurn) + FullTurn) % FullTurn
           IN IF q = 0 THEN 0 - 1 ELSE IF q = 180 THEN 1 ELSE 0

\* rx, ry: the two draws of Math.random() * 400 + 100, used by 'random' only
ApplyActionDriftMut(s, type, value, rx, ry) ==
    LET r == CASE type = "moveX" -> [s EXCEPT !.velocityX = value, !.x = s.x + value]
               [] type = "moveY" -> [s EXCEPT !.velocityY = value, !.y = s.y + value]
               [] type = "move" -> [s EXCEPT !.velocityX = CosQ(s.direction) * value,
                                             !.velocityY = SinQ(s.direction) * value]
               [] type = "turn" -> [s EXCEPT !.direction = JsRem(s.direction + value, FullTurn)]
               [] type = "size" -> [s EXCEPT !.size = NewSize(s.size, value)]
               [] type = "say" -> [s EXCEPT !.saying = "Hello!"]
               [] type = "random" -> [s EXCEPT !.x = rx, !.y = ry]
               [] OTHER -> s
    IN [r EXCEPT !.isAnimating = TRUE]
ApplyActionIdleMut(s, type, value, rx, ry) ==
    CASE type = "moveX" -> [s EXCEPT !.velocityX = value, !.isAnimating = TRUE]
      [] type = "moveY" -> [s EXCEPT !.velocityY = value, !.isAnimating = TRUE]
      [] type = "move" -> [s EXCEPT !.velocityX = CosQ(s.direction) * value,
                                    !.velocityY = SinQ(s.direction) * value,
                                    !.isAnimating = TRUE]
      [] type = "turn" -> [s EXCEPT !.direction = JsRem(s.direction + value, FullTurn)]
      [] type = "size" -> [s EXCEPT !.size = NewSize(s.size, value)]
      [] type = "say" -> [s EXCEPT !.saying = "Hello!"]
      [] type = "random" -> [s EXCEPT !.x = rx, !.y = ry, !.isAnimating = TRUE]
      [] OTHER -> s
ApplyAction(s, type, value, rx, ry) ==
    LET r == CASE type = "moveX" -> [s EXCEPT !.velocityX = value]
               [] type = "moveY" -> [s EXCEPT !.velocityY = value]
               [] type = "move" -> [s EXCEPT !.velocityX = CosQ(s.direction) * value,
                                             !.velocityY = SinQ(s.direction) * value]
               [] type = "turn" -> [s EXCEPT !.direction = JsRem(s.direction + value, FullTurn)]
               [] type = "size" -> [s EXCEPT !.size = NewSize(s.size, value)]
               [] type = "say" -> [s EXCEPT !.saying = "Hello!"]
               [] type = "random" -> [s EXCEPT !.x = rx, !.y = ry]
               [] OTHER -> s
    IN [r EXCEPT !.isAnimating = TRUE]

\* { ...sprite, isAnimating: false, velocityX: 0, velocityY: 0 }
StopSpriteCoastMut(s) == [s EXCEPT !.isAnimating = FALSE]
StopSprite(s) == [s EXCEPT !.isAnimating = FALSE, !.velocityX = 0, !.velocityY = 0]

\* { ...sprite, saying: '' }
ClearSaying(s) == [s EXCEPT !.saying = ""]

\* setSprites(prev => prev.map(...)) of the timer t: the sprites whose id is
\* the timer's are replaced, the others are kept
TimerCallbackMut(sp, t, rx, ry) ==
    IF t.kind = "action" /\ (\A m \in 1..Len(sp) : sp[m].id # t.id)
    THEN Append(sp, ApplyAction([id |-> t.id, x |-> rx, y |-> ry, direction |-> 0,
                                 saying |-> "", size |-> Unit, velocityX |-> 0,
                                 velocityY |-> 0, isAnimating |-> FALSE],
                                t.type, t.value, rx, ry))
    ELSE [m \in 1..Len(sp) |->
            CASE t.kind = "action" /\ sp[m].id = t.id ->
                     ApplyAction(sp[m], t.type, t.value, rx, ry)
              [] t.kind = "stop" /\ sp[m].id = t.id -> StopSprite(sp[m])
              [] t.kind = "clear" /\ sp[m].id \in {t.id, t.id2} -> ClearSaying(sp[m])
              [] OTHER -> sp[m]]
TimerCallback(sp, t, rx, ry) ==
    [m \in 1..Len(sp) |->
        CASE t.kind = "action" /\ sp[m].id = t.id ->
                 ApplyAction(sp[m], t.type, t.value, rx, ry)
          [] t.kind = "stop" /\ sp[m].id = t.id -> StopSprite(sp[m])
          [] t.kind = "clear" /\ sp[m].id \in {t.id, t.id2} -> ClearSaying(sp[m])
          [] OTHER -> sp[m]]

-----------------------------------------------------------------------------
(* History                                                                 *)

Snapshot ==
    [sprites |-> sprites, actionBlocks |-> actionBlocks, isPlaying |-> isPlaying,
     selectedSprite |-> selectedSprite, timers |-> timers, frames |-> frames,
     now |-> now, fired |-> fired]

NoPass == [delta |-> 0, stepped |-> <<>>, hit |-> <<>>]

NoFired == <<>>
Mark(fd, id, i) == [k \in (DOMAIN fd) \cup {id} |-> IF k = id THEN i ELSE fd[k]]

Record(op) == lastOp' = op /\ prev' = Snapshot

\* a user operation: the model follows a bounded number of them
UserOp == userOps < MaxUserOps /\ userOps' = userOps + 1

-----------------------------------------------------------------------------
(* Operations                                                              *)

\* the action palette: the payloads of handleActionDragStart
Palette ==
    {[type |-> "moveX", value |-> 100 * Unit], [type |-> "moveX", value |-> 0 - 100 * Unit],
     [type |-> "moveY", value |-> 50 * Unit], [type |-> "moveY", value |-> 0 - 50 * Unit],
     [type |-> "turn", value |-> 90], [type |-> "random", value |-> 0],
     [type |-> "say", value |-> 0],
     [type |-> "size", value |-> Unit \div 10], [type |-> "size", value |-> 0 - (Unit \div 10)]}

\* The two effects with dependencies [isPlaying, actionBlocks], run after a
\* handler that left the frames fr, the ref, and registered the timers ts.
RunEffects(fr, ref, ts, playing, blocks) ==
    LET fe == FrameEffect(fr, ref, isPlaying, playing, blocks, now)
    IN /\ frames' = fe[1]
       /\ animationFrameRef' = fe[2]
       /\ timers' = ts \o SequencerEffect(playing, blocks, now)

addSprite(x, y) ==
    /\ UserOp
    /\ Len(sprites) < MaxSprites
    /\ sprites' = Append(sprites, NewSprite(now, x, y))
    /\ selectedSprite' = now
    /\ Record("addSprite")
    /\ pass' = NoPass
    /\ UNCHANGED <<isPlaying, actionBlocks, animationFrameRef, frames, timers, now, fired>>

deleteSprite(id) ==
    /\ UserOp
    /\ id \in SpriteIds(sprites)
    /\ sprites' = WithoutId(sprites, id)
    /\ selectedSprite' = IF selectedSprite = id THEN NoId ELSE selectedSprite
    /\ Record("deleteSprite")
    /\ pass' = NoPass
    /\ UNCHANGED <<isPlaying, actionBlocks, animationFrameRef, frames, timers, now, fired>>

\* a sprite can be dragged only while not playing (handleDragStart)
handleDrop(id, x, y) ==
    /\ UserOp
    /\ ~isPlaying
    /\ id \in SpriteIds(sprites)
    /\ sprites' = [k \in 1..Len(sprites) |->
                     IF sprites[k].id = id THEN [sprites[k] EXCEPT !.x = x, !.y = y]
                     ELSE sprites[k]]
    /\ selectedSprite' = id
    /\ Record("handleDrop")
    /\ pass' = NoPass
    /\ UNCHANGED <<isPlaying, actionBlocks, animationFrameRef, frames, timers, now, fired>>

handleActionDrop(id, a) ==
    /\ UserOp
    /\ id \in SpriteIds(sprites)
    /\ actionBlocks' = Put(actionBlocks, id,
                           Append(Get(actionBlocks, id),
                                  [id |-> now, type |-> a.type, value |-> a.value]))
    /\ RunEffects(frames, animationFrameRef, timers, isPlaying, actionBlocks')
    /\ Record("handleActionDrop")
    /\ pass' = NoPass
    /\ UNCHANGED <<sprites, selectedSprite, isPlaying, now, fired>>

\* prev[spriteId].filter(action => action.id !== actionId)
RECURSIVE WithoutAction(_, _)
WithoutAction(q, actionId) ==
    IF q = <<>> THEN <<>>
    ELSE IF Head(q).id = actionId THEN WithoutAction(Tail(q), actionId)
    ELSE <<Head(q)>> \o WithoutAction(Tail(q), actionId)

removeAction(id, actionId) ==
    /\ UserOp
    /\ id \in SpriteIds(sprites)
    /\ \E k \in 1..Len(Get(actionBlocks, id)) : Get(actionBlocks, id)[k].id = actionId
    /\ actionBlocks' = Put(actionBlocks, id, WithoutAction(Get(actionBlocks, id), actionId))
    /\ RunEffects(frames, animationFrameRef, timers, isPlaying, actionBlocks')
    /\ Record("removeAction")
    /\ pass' = NoPass
    /\ UNCHANGED <<sprites, selectedSprite, isPlaying, now, fired>>

\* onClick={() => setIsPlaying(!isPlaying)}
togglePlay ==
    /\ UserOp
    /\ isPlaying' = ~isPlaying
    /\ RunEffects(frames, animationFrameRef, timers, isPlaying', actionBlocks)
    /\ Record("togglePlay")
    /\ pass' = NoPass
    /\ fired' = NoFired
    /\ UNCHANGED <<sprites, selectedSprite, actionBlocks, now>>

resetAllMut ==
    /\ UserOp
    /\ sprites' = <<>>
    /\ selectedSprite' = selectedSprite
    /\ isPlaying' = FALSE
    /\ actionBlocks' = actionBlocks
    /\ RunEffects(frames, animationFrameRef, timers, FALSE, actionBlocks')
    /\ Record("resetAll")
    /\ pass' = NoPass
    /\ fired' = NoFired
    /\ UNCHANGED now

resetAll ==
    /\ UserOp
    /\ sprites' = <<>>
    /\ selectedSprite' = NoId
    /\ isPlaying' = FALSE
    /\ actionBlocks' = <<>>
    /\ RunEffects(IF animationFrameRef # Undefined
                  THEN cancelAnimationFrame(frames, animationFrameRef) ELSE frames,
                  animationFrameRef, timers, FALSE, actionBlocks')
    /\ Record("resetAll")
    /\ pass' = NoPass
    /\ fired' = NoFired
    /\ UNCHANGED now

animateStaleMut(f) ==
    /\ f \in frames
    /\ now > f.lastTime
    /\ LET deltaMs == now - f.lastTime
           stepped == Stepper(sprites, deltaMs)
           old == handleCollisions(sprites, actionBlocks, f.closure, now)
           res == [old EXCEPT !.sp = Stepper(old.sp, deltaMs)]
           fr1 == Request(frames \ {f}, animationFrameRef, now, f.closure)
           ref1 == FreshHandle(frames \ {f}, animationFrameRef)
       IN /\ sprites' = res.sp
          /\ actionBlocks' = res.blocks
          /\ pass' = [delta |-> deltaMs, stepped |-> stepped, hit |-> res.hit]
          /\ IF res.hit # <<>>
             THEN RunEffects(fr1, ref1, timers \o res.newTimers, isPlaying, actionBlocks')
             ELSE /\ frames' = fr1
                  /\ animationFrameRef' = ref1
                  /\ timers' = timers
    /\ Record("animate")
    /\ UNCHANGED <<selectedSprite, isPlaying, now, userOps, fired>>

\* One frame callback: the stepper, the collision resolver on its output, the
\* request of the next frame, then the effects if the store of queues changed.
animate(f) ==
    /\ f \in frames
    /\ now > f.lastTime
    /\ LET deltaMs == now - f.lastTime
           stepped == Stepper(sprites, deltaMs)
           res == handleCollisions(stepped, actionBlocks, f.closure, now)
           fr1 == Request(frames \ {f}, animationFrameRef, now, f.closure)
           ref1 == FreshHandle(frames \ {f}, animationFrameRef)
       IN /\ sprites' = res.sp
          /\ actionBlocks' = res.blocks
          /\ pass' = [delta |-> deltaMs, stepped |-> stepped, hit |-> res.hit]
          /\ IF res.hit # <<>>
             THEN RunEffects(fr1, ref1, timers \o res.newTimers, isPlaying, actionBlocks')
             ELSE /\ frames' = fr1
                  /\ animationFrameRef' = ref1
                  /\ timers' = timers
    /\ Record("animate")
    /\ UNCHANGED <<selectedSprite, isPlaying, now, userOps, fired>>

fireTimerConsumeMut(rx, ry) ==
    /\ Due(timers, now) # {}
    /\ LET k == NextDue(timers, now)
           t == timers[k]
           rest == RemoveAt(timers, k)
       IN /\ sprites' = TimerCallback(sprites, t, rx, ry)
          /\ timers' = IF t.kind = "action" /\ t.last
                       THEN Append(rest, StopTimer(t.id, now)) ELSE rest
          /\ lastOp' = t.kind
          /\ fired' = IF t.kind = "action" /\ isPlaying /\ t.id \in SpriteIds(sprites)
                       THEN Mark(fired, t.id, t.index) ELSE fired
          /\ actionBlocks' = IF t.kind = "action" /\ Get(actionBlocks, t.id) # <<>>
                             THEN Put(actionBlocks, t.id, Tail(Get(actionBlocks, t.id)))
                             ELSE actionBlocks
    /\ prev' = Snapshot
    /\ pass' = NoPass
    /\ UNCHANGED <<selectedSprite, isPlaying, animationFrameRef, frames, now, userOps>>
\* One setTimeout callback runs.
fireTimer(rx, ry) ==
    /\ Due(timers, now) # {}
    /\ LET k == NextDue(timers, now)
           t == timers[k]
           rest == RemoveAt(timers, k)
       IN /\ sprites' = TimerCallback(sprites, t, rx, ry)
          /\ timers' = IF t.kind = "action" /\ t.last
                       THEN Append(rest, StopTimer(t.id, now)) ELSE rest
          /\ lastOp' = t.kind
          /\ fired' = IF t.kind = "action" /\ isPlaying /\ t.id \in SpriteIds(sprites)
                       THEN Mark(fired, t.id, t.index) ELSE fired
    /\ prev' = Snapshot
    /\ pass' = NoPass
    /\ UNCHANGED <<selectedSprite, isPlaying, actionBlocks, animationFrameRef, frames, now,
                   userOps>>

\* Time passes; a timer runs no later than the clock reading it is due at.
tick(horizon) ==
    /\ now < horizon
    /\ Due(timers, now) = {}
    /\ now' = now + TickMs
    /\ Record("tick")
    /\ pass' = NoPass
    /\ UNCHANGED <<sprites, selectedSprite, isPlaying, actionBlocks, animationFrameRef,
                   frames, timers, userOps, fired>>

-----------------------------------------------------------------------------
(* The application, from its initial render                                *)

Init ==
    /\ sprites = <<>>
    /\ selectedSprite = NoId
    /\ isPlaying = FALSE
    /\ actionBlocks = <<>>
    /\ animationFrameRef = Undefined
    /\ frames = {}
    /\ timers = <<>>
    /\ now = TickMs
    /\ userOps = 0
    /\ lastOp = "init"
    /\ prev = [sprites |-> <<>>, actionBlocks |-> <<>>, isPlaying |-> FALSE,
               selectedSprite |-> NoId, timers |-> <<>>, frames |-> {}, now |-> TickMs,
               fired |-> NoFired]
    /\ pass = NoPass
    /\ fired = NoFired

\* Math.random() * 400 + 100 lies in [100, 500)
SpawnChoices == {SpawnLo * Unit, (SpawnLo + 20) * Unit}
\* a drop lands anywhere on the stage
DropX == {0}
DropY == {SpawnLo * Unit}
PaletteUsed == {a \in Palette : a.type \in {"moveX", "size"} /\ a.value < 0}

Next ==
    \/ \E x \in SpawnChoices : addSprite(x, SpawnLo * Unit)
    \/ \E id \in SpriteIds(sprites) : \E x \in DropX, y \in DropY : handleDrop(id, x, y)
    \/ \E id \in SpriteIds(sprites) : deleteSprite(id)
    \/ \E id \in SpriteIds(sprites) : \E a \in PaletteUsed :
          Len(Get(actionBlocks, id)) < MaxQueue /\ handleActionDrop(id, a)
    \/ \E id \in SpriteIds(sprites) : \E k \in 1..Len(Get(actionBlocks, id)) :
          removeAction(id, Get(actionBlocks, id)[k].id)
    \/ togglePlay
    \/ resetAll
    \/ \E f \in frames : animate(f)
    \/ fireTimer(SpawnLo * Unit, SpawnLo * Unit)
    \/ tick(MaxTicks * TickMs)

Spec == Init /\ [][Next]_vars

-----------------------------------------------------------------------------
(* Cancellation on stop and reset                                          *)

PendingKinds == {timers[k].kind : k \in 1..Len(timers)}

\* C1: after playback has been stopped, a sequencer timer scheduled before the
\* stop (an action firing or the post-sequence stop timer) that runs while
\* playback is stopped leaves the sprite store as it was.
C1_StoppedSequencerTimersAreInert ==
    (lastOp \in {"action", "stop"} /\ ~prev.isPlaying /\ ~isPlaying)
        => sprites = prev.sprites

\* C2: while playing is false no frame callback is outstanding (none is
\* requested, none already requested survives the stop or the reset), and a
\* frame callback only ever runs while playing.
C2_NoFrameCallbackWhileStopped ==
    /\ ~isPlaying => frames = {}
    /\ lastOp = "animate" => prev.isPlaying

\* a stop or a reset that found a frame callback outstanding
C2_Witness ==
    /\ lastOp \in {"togglePlay", "resetAll"}
    /\ prev.isPlaying /\ prev.frames # {}
    /\ ~isPlaying /\ frames = {}

\* C3: a collision-message clear timer pending at a stop or reset is
\* cancelled: while playback is stopped no clear timer is pending, and none
\* runs.
C3_ClearTimersCancelledOnStop ==
    /\ ~isPlaying => "clear" \notin PendingKinds
    /\ lastOp = "clear" => prev.isPlaying

\* C4: resetAll leaves an empty sprite collection, an empty action-queue
\* store, no selected sprite and playing = false, whatever state it ran in.
C4_ResetClearsStores ==
    lastOp = "resetAll" =>
        /\ sprites = <<>>
        /\ actionBlocks = <<>>
        /\ selectedSprite = NoId
        /\ ~isPlaying

\* a reset of a playing application with sprites, queues and a selection
C4_Witness ==
    /\ lastOp = "resetAll"
    /\ prev.isPlaying
    /\ prev.sprites # <<>>
    /\ prev.actionBlocks # <<>>
    /\ prev.selectedSprite # NoId
    /\ sprites = <<>>

\* C5: after resetAll no scheduled work is outstanding: no sequencer timer,
\* no post-sequence stop timer, no collision clear timer, no frame callback.
C5_ResetLeavesNoScheduledWork ==
    lastOp = "resetAll" => (timers = <<>> /\ frames = {})

-----------------------------------------------------------------------------
(* The stage: playback has just been started on sprites that were placed   *)
(* (dropped) on the stage and given queues; from then on only frames,      *)
(* timers and the clock act.                                               *)

MoveBlock(type, v) == <<[id |-> 1, type |-> type, value |-> v]>>

\* the placements: where a sprite was dropped and the queue it was given
StageSetups ==
    {[x |-> 0, y |-> 300 * Unit, q |-> <<>>],
     [x |-> 20 * Unit, y |-> 300 * Unit, q |-> MoveBlock("moveX", 0 - 100 * Unit)],
     [x |-> 20 * Unit, y |-> 300 * Unit, q |-> MoveBlock("moveY", 50 * Unit)],
     [x |-> 560 * Unit, y |-> 580 * Unit, q |-> MoveBlock("moveX", 100 * Unit)],
     [x |-> 560 * Unit, y |-> 580 * Unit, q |-> MoveBlock("moveY", 50 * Unit)],
     [x |-> 300 * Unit, y |-> 100 * Unit, q |-> MoveBlock("moveX", 100 * Unit)]}

\* the store of queues after the drops: one entry per sprite that got a block
RECURSIVE BlocksOf(_, _)
BlocksOf(su, k) ==
    IF k > Len(su) THEN <<>>
    ELSE IF su[k].q = <<>> THEN BlocksOf(su, k + 1)
    ELSE <<[key |-> k, q |-> su[k].q]>> \o BlocksOf(su, k + 1)

\* the state the Play button leaves when pressed at clock reading t on the
\* sprites sp with the queues b
JustStarted(sp, b, t) ==
    /\ sprites = sp
    /\ selectedSprite = sp[Len(sp)].id
    /\ isPlaying = TRUE
    /\ actionBlocks = b
    /\ frames = Request({}, Undefined, t, b)
    /\ animationFrameRef = FreshHandle({}, Undefined)
    /\ timers = SequencerEffect(TRUE, b, t)
    /\ now = t
    /\ userOps = 0
    /\ lastOp = "togglePlay"
    /\ prev = [sprites |-> sp, actionBlocks |-> b, isPlaying |-> FALSE,
               selectedSprite |-> sp[Len(sp)].id, timers |-> <<>>, frames |-> {},
               now |-> t, fired |-> NoFired]
    /\ pass = NoPass
    /\ fired = NoFired

InitStage ==
    \E n \in 1..StageSprites :
      \E su \in [1..n -> StageSetups] :
        JustStarted([k \in 1..n |-> NewSprite(k, su[k].x, su[k].y)],
                    BlocksOf(su, 1), TickMs)

NextStage ==
    \/ \E f \in frames : animate(f)
    \/ fireTimer(SpawnLo * Unit, SpawnLo * Unit)
    \/ tick((StageTicks + 1) * TickMs)

SpecStage == InitStage /\ [][NextStage]_vars

InStage(s) ==
    /\ ~IsNaN(s.x) /\ ~IsNaN(s.y)
    /\ 0 <= s.x /\ s.x <= StageWidth
    /\ 0 <= s.y /\ s.y <= StageHeight

\* C6: whatever frames and timers have run on sprites that started inside
\* the stage, every sprite's position is inside the stage:
\* 0 <= x <= stageWidth and 0 <= y <= stageHeight.
C6_PositionsStayInStage == \A k \in 1..Len(sprites) : InStage(sprites[k])

-----------------------------------------------------------------------------
(* One frame: the stepper                                                  *)

\* the integrated coordinate pos + vel * delta reaches or passes a wall
\* (delta is in ms; both sides are scaled by 1000)
Crosses(pos, vel, deltaMs, limit) ==
    \/ pos * MsPerSec + vel * deltaMs <= 0
    \/ pos * MsPerSec + vel * deltaMs >= limit * MsPerSec

\* what the claim requires of one axis of one animating sprite in one tick
AxisBounce(pos, vel, deltaMs, limit, newPos, newVel) ==
    IF IsNaN(pos) THEN newVel = vel
    ELSE IF Crosses(pos, vel, deltaMs, limit)
    THEN /\ newVel = 0 - vel
         /\ 0 <= newPos /\ newPos <= limit
         /\ (pos * MsPerSec + vel * deltaMs >= limit * MsPerSec) => newPos = limit
         /\ (pos * MsPerSec + vel * deltaMs <= 0) => newPos = 0
    ELSE newVel = vel

\* C8: on a stepper tick, an animating sprite whose integrated x is <= 0 or
\* >= stageWidth gets velocityX negated and x clamped into [0, stageWidth]
\* on that same tick; y likewise and independently against stageHeight; the
\* velocity of an axis that did not cross is unchanged.
C8_WallBounce ==
    lastOp = "animate" =>
        \A k \in 1..Len(prev.sprites) :
            LET p == prev.sprites[k]
                n == pass.stepped[k]
            IN p.isAnimating =>
                  /\ AxisBounce(p.x, p.velocityX, pass.delta, StageWidth, n.x, n.velocityX)
                  /\ AxisBounce(p.y, p.velocityY, pass.delta, StageHeight, n.y, n.velocityY)

\* a sprite moving right at (+100, 0) px/s reaches the right wall in this tick
C8_Witness ==
    /\ lastOp = "animate"
    /\ \E k \in 1..Len(prev.sprites) :
          /\ prev.sprites[k].isAnimating
          /\ prev.sprites[k].velocityX = 100 * Unit
          /\ prev.sprites[k].velocityY = 0
          /\ prev.sprites[k].x < StageWidth
          /\ pass.stepped[k].x = StageWidth
          /\ pass.stepped[k].velocityX = 0 - 100 * Unit
          /\ pass.stepped[k].velocityY = 0

-----------------------------------------------------------------------------
(* One frame: the collision resolver on exactly one overlapping pair       *)

OnePair == lastOp = "animate" /\ Len(pass.hit) = 1
PairA == pass.hit[1][1]
PairB == pass.hit[1][2]

\* C9: after a resolution pass over exactly two overlapping sprites A and B,
\* A's velocity is B's velocity before the pass and B's is A's before the
\* pass, in both components.
C9_VelocitiesExchanged ==
    OnePair =>
        /\ sprites[PairA].velocityX = pass.stepped[PairB].velocityX
        /\ sprites[PairA].velocityY = pass.stepped[PairB].velocityY
        /\ sprites[PairB].velocityX = pass.stepped[PairA].velocityX
        /\ sprites[PairB].velocityY = pass.stepped[PairA].velocityY

\* two sprites whose velocities differ in both components have collided
C9_Witness ==
    /\ OnePair
    /\ pass.stepped[PairA].velocityX # pass.stepped[PairB].velocityX
    /\ pass.stepped[PairA].velocityY # pass.stepped[PairB].velocityY
    /\ sprites[PairA].velocityX = pass.stepped[PairB].velocityX
    /\ sprites[PairB].velocityY = pass.stepped[PairA].velocityY

\* C10: after a resolution pass over exactly two overlapping sprites A and B,
\* the store of queues maps A's id to the queue B owned before the pass and
\* B's id to the queue A owned before (no entry counts as the empty queue);
\* the queue of every other sprite is unchanged.  The store is keyed by
\* sprite id, so "other" ranges over the ids other than A's and B's: those
\* of the sprites on stage and those still in the store.
C10_QueuesExchanged ==
    OnePair =>
        /\ Get(actionBlocks, sprites[PairA].id) = Get(prev.actionBlocks, sprites[PairB].id)
        /\ Get(actionBlocks, sprites[PairB].id) = Get(prev.actionBlocks, sprites[PairA].id)
        /\ \A id \in (SpriteIds(sprites) \cup Keys(actionBlocks) \cup Keys(prev.actionBlocks))
                         \ {sprites[PairA].id, sprites[PairB].id} :
              Get(actionBlocks, id) = Get(prev.actionBlocks, id)

\* two sprites with different non-empty queues have collided next to a third
\* sprite that owns a queue too
C10_Witness ==
    /\ OnePair
    /\ Get(prev.actionBlocks, sprites[PairA].id) # <<>>
    /\ Get(prev.actionBlocks, sprites[PairB].id) # <<>>
    /\ Get(prev.actionBlocks, sprites[PairA].id) # Get(prev.actionBlocks, sprites[PairB].id)
    /\ \E k \in 1..Len(sprites) :
          /\ sprites[k].id \notin {sprites[PairA].id, sprites[PairB].id}
          /\ Get(prev.actionBlocks, sprites[k].id) # <<>>

-----------------------------------------------------------------------------
(* Change-scale actions: playback has just been started on one sprite of   *)
(* size 1.0 whose queue holds change-scale blocks only.                    *)

ScaleBlock(v) == [id |-> 1, type |-> "size", value |-> v]

\* magnitudes: -2.0, -0.1 (the palette's Decrease Size), +0.1, +1.0
ScaleValues == {0 - 2 * Unit, 0 - (Unit \div 10), Unit \div 10, Unit}

\* DecreaseRuns successive 'decrease by 0.1' blocks
DecreaseRun == [i \in 1..DecreaseRuns |-> ScaleBlock(0 - (Unit \div 10))]

ScaleQueues ==
    {DecreaseRun} \cup
    UNION {[1..n -> {ScaleBlock(v) : v \in ScaleValues}] : n \in 1..MaxScaleLen}

InitScale ==
    \E q \in ScaleQueues :
        JustStarted(<<NewSprite(1, SpawnLo * Unit, SpawnLo * Unit)>>,
                    <<[key |-> 1, q |-> q]>>, TickMs)

NextScale ==
    \/ \E f \in frames : animate(f)
    \/ fireTimer(SpawnLo * Unit, SpawnLo * Unit)
    \/ tick((DecreaseRuns + 2) * TimeUnit)

SpecScale == InitScale /\ [][NextScale]_vars

\* every block of the run of decreases has been applied
DecreaseRunDone ==
    /\ actionBlocks = <<[key |-> 1, q |-> DecreaseRun]>>
    /\ "action" \notin PendingKinds

\* C7: after any sequence of change-scale actions of any magnitudes every
\* sprite's size is at least the floor 0.1; eleven successive decreases by
\* 0.1 from size 1.0 leave the size exactly at the floor.
C7_ScaleFloor ==
    /\ \A k \in 1..Len(sprites) : sprites[k].size >= SizeFloor
    /\ DecreaseRunDone => sprites[1].size = SizeFloor

\* the run of decreases has been applied and the sprite sits at the floor
C7_Witness ==
    /\ DecreaseRunDone
    /\ prev.sprites[1].size = SizeFloor
    /\ sprites[1].size = SizeFloor
    /\ lastOp = "action"

-----------------------------------------------------------------------------
(* Collision geometry: playback has just been started on two sprites that  *)
(* own no queue, the first in the middle of the stage, the second placed   *)
(* at every offset of a grid around it (on the axes, on the diagonals, in  *)
(* between, and on the very same centre).                                  *)

PairStride == 20 * Unit       \* the grid step of the placements, 20 px
PairOffsets == {k * PairStride : k \in (0 - PairSteps)..PairSteps}
PairSizes == {Unit, 2 * Unit}
PairCentre == (DefaultStage \div 2) * Unit

InitPair ==
    \E dx \in PairOffsets, dy \in PairOffsets, sz \in PairSizes :
        JustStarted(<<NewSprite(1, PairCentre, PairCentre),
                      [NewSprite(2, PairCentre + dx, PairCentre + dy) EXCEPT !.size = sz]>>,
                    <<>>, TickMs)

NextPair ==
    \/ \E f \in frames : animate(f)
    \/ fireTimer(SpawnLo * Unit, SpawnLo * Unit)
    \/ tick((StageTicks + 3) * TickMs)

SpecPair == InitPair /\ [][NextPair]_vars

\* C11: after a resolution pass over two sprites that overlapped (|dx| and
\* |dy| both below the half-sum of the sides), checkCollision on the
\* resulting positions is false, whatever the relative placement of the two
\* centres, diagonal ones included.
C11_SeparatedAfterPass ==
    OnePair => ~checkCollision(sprites[PairA], sprites[PairB])

SameCentre(s1, s2) == s1.x = s2.x /\ s1.y = s2.y

\* C16: when the two overlapping sprites have identical centres, the pass
\* leaves both with finite positions that differ from each other.
C16_ZeroDistanceFallback ==
    (OnePair /\ SameCentre(pass.stepped[PairA], pass.stepped[PairB])) =>
        /\ ~IsNaN(sprites[PairA].x) /\ ~IsNaN(sprites[PairA].y)
        /\ ~IsNaN(sprites[PairB].x) /\ ~IsNaN(sprites[PairB].y)
        /\ ~SameCentre(sprites[PairA], sprites[PairB])

-----------------------------------------------------------------------------
(* The sequencer: playback has just been started on a sprite that owns a   *)
(* queue of rotate-by blocks, next to a second sprite that owns none and   *)
(* stands clear of it; while the timers run, a block is dropped on either  *)
(* sprite or a sprite is deleted.                                          *)

\* the magnitudes of the rotate-by blocks: the palette's 90, and what the
\* JSON of a drop may carry besides (handleActionDrop takes any payload)
TurnValues == {90, FullTurn - 90, 0 - 90}
\* the palette's rotate-by block, 'Turn 90'
SeqPalette == {a \in Palette : a.type = "turn"}

\* queues of 1..MaxSeqLen rotate-by blocks, the block at position i dropped
\* at clock reading i
SeqQueues ==
    UNION {{[i \in 1..n |-> [id |-> i, type |-> "turn", value |-> vs[i]]] :
                vs \in [1..n -> TurnValues]} : n \in 1..MaxSeqLen}

InitSeq ==
    \E q \in SeqQueues :
        JustStarted(<<NewSprite(1, SpawnLo * Unit, SpawnLo * Unit),
                      NewSprite(2, (SpawnLo + SpawnSpan) * Unit, (SpawnLo + SpawnSpan) * Unit)>>,
                    <<[key |-> 1, q |-> q]>>, TickMs)

NextSeq ==
    \/ \E id \in SpriteIds(sprites) : \E a \in SeqPalette :
          /\ userOps < MaxSeqOps
          /\ Len(Get(actionBlocks, id)) < MaxSeqLen
          /\ handleActionDrop(id, a)
    \/ \E id \in SpriteIds(sprites) : userOps < MaxSeqOps /\ deleteSprite(id)
    \/ \E f \in frames : animate(f)
    \/ fireTimer(SpawnLo * Unit, SpawnLo * Unit)
    \/ tick((MaxSeqLen + 2) * TimeUnit)

SpecSeq == InitSeq /\ [][NextSeq]_vars

\* the timer whose callback produced this state (when lastOp is a timer kind)
TimerOps == {"action", "stop", "clear"}
LastTimer == prev.timers[NextDue(prev.timers, prev.now)]

\* every callback that is due at this clock reading has run
Settled == Due(timers, now) = {}
\* the time since the trigger of the run (playback is started at TickMs)
Elapsed == now - TickMs
AtRest(s) == s.velocityX = 0 /\ s.velocityY = 0 /\ ~s.isAnimating

DoubleTurn ==
    <<[id |-> 1, type |-> "turn", value |-> 90], [id |-> 2, type |-> "turn", value |-> 90]>>
\* the run of the queue [rotate 90, rotate 90], triggered once
DoubleTurnRun == userOps = 0 /\ actionBlocks = <<[key |-> 1, q |-> DoubleTurn]>>

\* C12 as stated: for a sprite with direction 0 and queue [rotate 90,
\* rotate 90] triggered at t, the direction is unchanged at t, is 90 at
\* t + 1 unit, is 180 (and the sprite still animating) at t + 2 units, and
\* the sprite is at rest (velocity zero, isAnimating false) at t + 3 units.
C12_TimelineAsStated ==
    DoubleTurnRun =>
        /\ lastOp = "togglePlay" => sprites[1].direction = 0
        /\ (Settled /\ Elapsed = TimeUnit) => sprites[1].direction = 90
        /\ (Settled /\ Elapsed = 2 * TimeUnit) =>
              (sprites[1].direction = 180 /\ sprites[1].isAnimating)
        /\ (Settled /\ Elapsed = 3 * TimeUnit) =>
              (sprites[1].direction = 180 /\ AtRest(sprites[1]))

\* C12 amended: for that sprite and queue triggered at t, the direction is
\* unchanged when the trigger returns, is 90 from t on (the timer of index 0
\* has delay 0), is 180 from t + 1 unit on, and the sprite is at rest from
\* t + 2 units on (one unit after the last action).
C12_Timeline ==
    DoubleTurnRun =>
        /\ lastOp = "togglePlay" => (sprites[1].direction = 0 /\ ~sprites[1].isAnimating)
        /\ (Settled /\ Elapsed < TimeUnit) =>
              (sprites[1].direction = 90 /\ sprites[1].isAnimating)
        /\ (Settled /\ TimeUnit <= Elapsed /\ Elapsed < 2 * TimeUnit) =>
              (sprites[1].direction = 180 /\ sprites[1].isAnimating)
        /\ (Settled /\ Elapsed >= 2 * TimeUnit) =>
              (sprites[1].direction = 180 /\ AtRest(sprites[1]))

\* the stop timer of the run has just put the sprite to rest, two units after
\* the trigger
C12_Witness ==
    /\ DoubleTurnRun
    /\ lastOp = "stop"
    /\ Elapsed = 2 * TimeUnit
    /\ prev.sprites[1].isAnimating /\ prev.sprites[1].direction = 180
    /\ sprites[1].direction = 180 /\ AtRest(sprites[1])

\* the operation that produced this state was a trigger of the sequencer:
\* playback was turned on, or the store of queues was set while playing
Triggered ==
    \/ lastOp = "togglePlay" /\ isPlaying
    \/ lastOp \in {"handleActionDrop", "removeAction"} /\ isPlaying
    \/ lastOp = "animate" /\ pass.hit # <<>>
\* the positions of the action timers registered by that operation
NewActionTimers ==
    {k \in (Len(prev.timers) + 1)..Len(timers) : timers[k].kind = "action"}

\* C13: on each trigger, for every sprite id of the store and every action at
\* 0-based index i of its queue, exactly one one-shot timer is scheduled,
\* due i * 1000 ms after the trigger, that applies that action to that id;
\* no other action timer is scheduled.
C13_OneTimerPerAction ==
    Triggered =>
        /\ \A e \in 1..Len(actionBlocks) : \A i \in 1..Len(actionBlocks[e].q) :
              /\ Cardinality({k \in NewActionTimers :
                                 /\ timers[k].id = actionBlocks[e].key
                                 /\ timers[k].index = i - 1}) = 1
              /\ \A k \in NewActionTimers :
                    (timers[k].id = actionBlocks[e].key /\ timers[k].index = i - 1) =>
                        /\ timers[k].due = now + (i - 1) * TimeUnit
                        /\ timers[k].type = actionBlocks[e].q[i].type
                        /\ timers[k].value = actionBlocks[e].q[i].value
        /\ \A k \in NewActionTimers :
              /\ Has(actionBlocks, timers[k].id)
              /\ timers[k].index < Len(Get(actionBlocks, timers[k].id))

\* a block dropped while playing, with earlier timers still pending, has
\* re-triggered the sequencer on a queue of two blocks
C13_Witness ==
    /\ lastOp = "handleActionDrop" /\ isPlaying
    /\ prev.timers # <<>>
    /\ \E e \in 1..Len(actionBlocks) : Len(actionBlocks[e].q) = 2
    /\ \E k \in NewActionTimers : timers[k].index = 1 /\ timers[k].due = now + TimeUnit

\* C14 as stated: the action firings applied to a sprite during playback are
\* in strictly ascending queue-index order, re-triggers included.
C14_AscendingFirings ==
    (lastOp = "action" /\ prev.isPlaying) =>
        ((LastTimer.id \in SpriteIds(prev.sprites) /\ LastTimer.id \in DOMAIN prev.fired)
            => LastTimer.index > prev.fired[LastTimer.id])

\* the trigger an action timer was registered by: it is due index units later
TriggerOf(t) == t.due - t.index * TimeUnit
SameRun(t, u) == u.kind = "action" /\ u.id = t.id /\ TriggerOf(u) = TriggerOf(t)

\* C14 amended: the action timers one trigger registers for a sprite run in
\* ascending queue-index order: when the timer of index i runs, no timer of
\* that trigger with a lower index is still pending, and unless it is the
\* last of its queue the timer of index i + 1 of that trigger still is.
C14_AscendingWithinTrigger ==
    lastOp = "action" =>
        /\ \A k \in 1..Len(timers) :
              SameRun(LastTimer, timers[k]) => timers[k].index >= LastTimer.index
        /\ ~LastTimer.last =>
              \E k \in 1..Len(timers) :
                 SameRun(LastTimer, timers[k]) /\ timers[k].index = LastTimer.index + 1

\* the timer of index 1 of one trigger has run on a sprite while timers of a
\* later trigger for that sprite are pending
C14_Witness ==
    /\ lastOp = "action"
    /\ LastTimer.index = 1
    /\ LastTimer.id \in SpriteIds(sprites)
    /\ \E k \in 1..Len(timers) :
          /\ timers[k].kind = "action" /\ timers[k].id = LastTimer.id
          /\ TriggerOf(timers[k]) > TriggerOf(LastTimer)

StopCount(ts) == Cardinality({k \in 1..Len(ts) : ts[k].kind = "stop"})

\* C15: a stop timer (velocity zero, isAnimating false) is created only when
\* a sprite's last queued action fires, due one time unit after that firing;
\* and no stop timer runs while an action timer of its sprite is pending.
C15_StopOnlyAfterLastAction ==
    /\ lastOp # "action" => StopCount(timers) <= StopCount(prev.timers)
    /\ lastOp = "action" =>
          IF LastTimer.last
          THEN /\ StopCount(timers) = StopCount(prev.timers) + 1
               /\ timers[Len(timers)] = StopTimer(LastTimer.id, now)
          ELSE StopCount(timers) = StopCount(prev.timers)
    /\ lastOp = "stop" =>
          \A k \in 1..Len(timers) :
             ~(timers[k].kind = "action" /\ timers[k].id = LastTimer.id)

\* the sprite ids a timer's callback looks for
Targets(t) == IF t.kind = "clear" THEN {t.id, t.id2} ELSE {t.id}

\* C17: a timer callback (action firing, post-sequence stop, collision
\* message clear) none of whose target ids is in the sprite store any more
\* leaves the sprite collection as it was: no sprite is re-created and no
\* other sprite is modified.
C17_DeletedTargetNoOp ==
    (lastOp \in TimerOps /\ Targets(LastTimer) \cap SpriteIds(prev.sprites) = {})
        => sprites = prev.sprites

\* an action timer has run after its sprite was deleted, beside another sprite
C17_Witness ==
    /\ lastOp = "action"
    /\ LastTimer.id \notin SpriteIds(prev.sprites)
    /\ prev.sprites # <<>>
    /\ Has(actionBlocks, LastTimer.id)
    /\ sprites = prev.sprites

\* C19: after any sequence of rotate-by actions, of positive or negative
\* magnitudes, every sprite's direction d satisfies 0 <= d < 360.
C19_DirectionInRange ==
    \A k \in 1..Len(sprites) :
        0 <= sprites[k].direction /\ sprites[k].direction < FullTurn

-----------------------------------------------------------------------------
(* Sprite lifecycle                                                        *)

\* C18: deleteSprite(id) removes the sprite with that id from the sprite
\* collection, removes that id's entry from the action-queue store and sets
\* the selection to none when it pointed to that id; the other sprites, the
\* other queues and a selection pointing elsewhere are unchanged.
C18_DeleteRemovesSpriteAndQueue ==
    lastOp = "deleteSprite" =>
        \E id \in SpriteIds(prev.sprites) :
            /\ sprites = WithoutId(prev.sprites, id)
            /\ id \notin SpriteIds(sprites)
            /\ ~Has(actionBlocks, id)
            /\ \A k \in Keys(prev.actionBlocks) \ {id} :
                  Get(actionBlocks, k) = Get(prev.actionBlocks, k)
            /\ selectedSprite = IF prev.selectedSprite = id THEN NoId
                                ELSE prev.selectedSprite

IdsOf(sp) == [k \in 1..Len(sp) |-> sp[k].id]

\* C20: no two sprites of the collection have the same id, whatever the
\* sequence of addSprite and deleteSprite calls (adds at the same clock
\* reading included), and the id of a sprite never changes: only addSprite,
\* deleteSprite and resetAll change the sequence of ids.
C20_UniqueImmutableIds ==
    /\ \A i, j \in 1..Len(sprites) : i # j => sprites[i].id # sprites[j].id
    /\ lastOp \notin {"init", "addSprite", "deleteSprite", "resetAll"} =>
          IdsOf(sprites) = IdsOf(prev.sprites)

-----------------------------------------------------------------------------
(* Three-way overlaps: playback has just been started on three sprites in  *)
(* the middle of the stage, each owning a different one-block queue, the   *)
(* second and the third placed on a grid of offsets around the first.      *)

TripleRows == {0, PairStride}

\* the three queues: move-by-x, move-by-y, rotate-by (palette payloads)
TripleBlocks ==
    <<[key |-> 1, q |-> MoveBlock("moveX", 100 * Unit)],
      [key |-> 2, q |-> MoveBlock("moveY", 50 * Unit)],
      [key |-> 3, q |-> MoveBlock("turn", 90)]>>

\* the sprites that were given their block: all three, or the first only
TripleOwners == {{1, 2, 3}, {1}}

InitTriple ==
    \E dx2 \in PairOffsets, dx3 \in PairOffsets, dy3 \in TripleRows, own \in TripleOwners :
        JustStarted(<<NewSprite(1, PairCentre, PairCentre),
                      NewSprite(2, PairCentre + dx2, PairCentre),
                      NewSprite(3, PairCentre + dx3, PairCentre + dy3)>>,
                    SelectSeq(TripleBlocks, LAMBDA e : e.key \in own), TickMs)

NextTriple ==
    \/ \E f \in frames : animate(f)
    \/ fireTimer(SpawnLo * Unit, SpawnLo * Unit)
    \/ tick((StageTicks + 1) * TickMs)

SpecTriple == InitTriple /\ [][NextTriple]_vars

\* the velocities after exchanging those of each pair of hits, in order
RECURSIVE VelocitySwaps(_, _)
VelocitySwaps(sp, hits) ==
    IF hits = <<>> THEN [k \in 1..Len(sp) |-> [x |-> sp[k].velocityX, y |-> sp[k].velocityY]]
    ELSE LET i == Head(hits)[1]
             j == Head(hits)[2]
         IN VelocitySwaps([sp EXCEPT ![i].velocityX = sp[j].velocityX,
                                     ![i].velocityY = sp[j].velocityY,
                                     ![j].velocityX = sp[i].velocityX,
                                     ![j].velocityY = sp[i].velocityY],
                          Tail(hits))

\* the store after exchanging the queues of each pair of hits, in order
RECURSIVE QueueSwaps(_, _, _)
QueueSwaps(b, sp, hits) ==
    IF hits = <<>> THEN b
    ELSE LET idI == sp[Head(hits)[1]].id
             idJ == sp[Head(hits)[2]].id
         IN QueueSwaps(Put(Put(b, idI, Get(b, idJ)), idJ, Get(b, idI)), sp, Tail(hits))

\* a frame in which the first resolved sprite overlapped two others
SharedHits ==
    /\ lastOp = "animate" /\ Len(pass.hit) >= 2
    /\ pass.hit[1][1] = pass.hit[2][1]

C21_VelocitiesCompose ==
    SharedHits =>
        \A k \in 1..Len(sprites) :
            /\ sprites[k].velocityX = VelocitySwaps(pass.stepped, pass.hit)[k].x
            /\ sprites[k].velocityY = VelocitySwaps(pass.stepped, pass.hit)[k].y

C21_QueuesCompose ==
    SharedHits =>
        \A id \in SpriteIds(sprites) :
            Get(actionBlocks, id) = Get(QueueSwaps(prev.actionBlocks, sprites, pass.hit), id)

\* C21: within one frame the overlapping pairs are resolved in ascending
\* (i, j) order, each on the state left by the pairs before it: when one
\* sprite overlaps two others, the final velocities and the final action
\* queues are those of the pairwise swaps applied one after the other.
C21_SequentialComposition == C21_VelocitiesCompose /\ C21_QueuesCompose

-----------------------------------------------------------------------------
(* Action kinds: playback has just been started on a sprite that owns a    *)
(* queue of blocks of any kind the ActionBlock type admits, next to a      *)
(* second sprite that owns none and stands clear of it; from then on only  *)
(* frames, timers and the clock act.                                       *)

\* newAction of handleActionDrop, with the x and y of the payload
ActBlock(type, value, x, y) == [id |-> 1, type |-> type, value |-> value, x |-> x, y |-> y]

\* the palette's payloads (they carry no x and no y), and payloads of the
\* kinds the palette has no block for: 'move', 'goto' with a target, 'think'
ActKinds ==
    {ActBlock(a.type, a.value, Undefined, Undefined) :
        a \in {p \in Palette : p.type \in {"turn", "random", "say"}
                               \/ (p.type = "moveX" /\ p.value > 0)
                               \/ (p.type = "moveY" /\ p.value < 0)
                               \/ (p.type = "size" /\ p.value > 0)}}
    \cup {ActBlock("move", 50 * Unit, Undefined, Undefined),
          ActBlock("goto", 0, 200 * Unit, 250 * Unit),
          ActBlock("think", 0, Undefined, Undefined)}

ActQueues == UNION {[1..n -> ActKinds] : n \in 1..MaxActLen}

InitAct ==
    \E q \in ActQueues :
        JustStarted(<<NewSprite(1, SpawnLo * Unit, SpawnLo * Unit),
                      NewSprite(2, (SpawnLo + SpawnSpan) * Unit, (SpawnLo + SpawnSpan) * Unit)>>,
                    <<[key |-> 1, q |-> q]>>, TickMs)

NextAct ==
    \/ \E f \in frames : animate(f)
    \/ fireTimer(SpawnLo * Unit, SpawnLo * Unit)
    \/ tick((MaxActLen + 2) * TimeUnit)

SpecAct == InitAct /\ [][NextAct]_vars

\* an action timer has just run on a sprite that exists; the block it
\* carries is the one at its index in the queue of its id (the queues of
\* these runs are never edited or exchanged)
ActionFired == lastOp = "action" /\ LastTimer.id \in SpriteIds(prev.sprites)
FiredBlock == Get(prev.actionBlocks, LastTimer.id)[LastTimer.index + 1]
\* the position in the collection of the sprite the timer is for
FiredAt == CHOOSE k \in 1..Len(prev.sprites) : prev.sprites[k].id = LastTimer.id

NoCollisionEver == pass.hit = <<>>

\* C22: a saying that became non-empty, by a say action or by a collision,
\* is cleared a fixed duration later while playback runs: as long as a
\* sprite shows a message during playback, a clear of that sprite is
\* scheduled, due at most one time unit from now.
C22_SayingIsCleared ==
    isPlaying =>
        \A k \in 1..Len(sprites) :
            sprites[k].saying # "" =>
                \E m \in 1..Len(timers) :
                    /\ timers[m].kind = "clear"
                    /\ sprites[k].id \in Targets(timers[m])
                    /\ timers[m].due <= now + TimeUnit

\* C23: when a move-by-x (resp. move-by-y) action fires on a sprite, its
\* velocityX (resp. velocityY) becomes the action's value, and its x, y,
\* other velocity component, size, direction and saying are as just before.
C23_MoveBySetsVelocityOnly ==
    (lastOp = "action" /\ LastTimer.type \in {"moveX", "moveY"}) =>
        \A k \in 1..Len(prev.sprites) :
            prev.sprites[k].id = LastTimer.id =>
                /\ LastTimer.type = "moveX" =>
                      /\ sprites[k].velocityX = LastTimer.value
                      /\ sprites[k].velocityY = prev.sprites[k].velocityY
                /\ LastTimer.type = "moveY" =>
                      /\ sprites[k].velocityY = LastTimer.value
                      /\ sprites[k].velocityX = prev.sprites[k].velocityX
                /\ sprites[k].x = prev.sprites[k].x
                /\ sprites[k].y = prev.sprites[k].y
                /\ sprites[k].size = prev.sprites[k].size
                /\ sprites[k].direction = prev.sprites[k].direction
                /\ sprites[k].saying = prev.sprites[k].saying

\* a move-by-x block has fired on a sprite that was moving along y, away
\* from where it started, and its x velocity has changed to the block's
C23_Witness ==
    /\ ActionFired /\ LastTimer.type = "moveX"
    /\ FiredBlock.value = LastTimer.value
    /\ prev.sprites[FiredAt].velocityY # 0
    /\ prev.sprites[FiredAt].y # SpawnLo * Unit
    /\ prev.sprites[FiredAt].velocityX # LastTimer.value
    /\ sprites[FiredAt].velocityX = LastTimer.value

\* C24: when a jump-to-point action with target (x, y) fires on a sprite,
\* the sprite's position becomes exactly (x, y) and its velocity is as just
\* before.
C24_JumpToPoint ==
    (ActionFired /\ LastTimer.type = "goto") =>
        \A k \in 1..Len(prev.sprites) :
            prev.sprites[k].id = LastTimer.id =>
                /\ sprites[k].x = FiredBlock.x
                /\ sprites[k].y = FiredBlock.y
                /\ sprites[k].velocityX = prev.sprites[k].velocityX
                /\ sprites[k].velocityY = prev.sprites[k].velocityY

\* C25: an action firing on an existing sprite, of whatever kind (kinds
\* with no other effect included), leaves that sprite with isAnimating true
\* and changes the isAnimating flag of no other sprite.
C25_FiringSetsAnimating ==
    lastOp = "action" =>
        \A k \in 1..Len(prev.sprites) :
            sprites[k].isAnimating =
                IF prev.sprites[k].id = LastTimer.id THEN TRUE
                ELSE prev.sprites[k].isAnimating

\* a block of a kind the switch has no case for has fired on a sprite at
\* rest, next to a sprite that stays at rest
C25_Witness ==
    /\ ActionFired /\ LastTimer.type = "think"
    /\ ~prev.sprites[FiredAt].isAnimating
    /\ sprites[FiredAt].isAnimating
    /\ \E k \in 1..Len(sprites) : k # FiredAt /\ ~sprites[k].isAnimating

-----------------------------------------------------------------------------
(* One frame: the stepper and the resolver together                        *)

\* C26: the stepper leaves every sprite whose isAnimating is false
\* untouched: its position and velocity after the stepper pass are those
\* before the pass, whatever its velocity and whatever the elapsed time.
C26_IdleSpritesUntouched ==
    lastOp = "animate" =>
        \A k \in 1..Len(prev.sprites) :
            ~prev.sprites[k].isAnimating =>
                /\ pass.stepped[k].x = prev.sprites[k].x
                /\ pass.stepped[k].y = prev.sprites[k].y
                /\ pass.stepped[k].velocityX = prev.sprites[k].velocityX
                /\ pass.stepped[k].velocityY = prev.sprites[k].velocityY

\* a frame with a positive elapsed time has passed over a sprite that is not
\* animating and has a velocity (handed to it by a collision)
C26_Witness ==
    /\ lastOp = "animate" /\ pass.delta > 0
    /\ \E k \in 1..Len(prev.sprites) :
          /\ ~prev.sprites[k].isAnimating
          /\ prev.sprites[k].velocityX # 0
          /\ ~IsNaN(prev.sprites[k].x)
          /\ pass.stepped[k] = prev.sprites[k]

\* the pairs (i, j), i < j, of sp that overlap
Overlaps(sp) ==
    {p \in (1..Len(sp)) \X (1..Len(sp)) : p[1] < p[2] /\ checkCollision(sp[p[1]], sp[p[2]])}
\* the first of them in the order of the two for loops
FirstPair(ps) ==
    CHOOSE p \in ps : \A r \in ps : p[1] < r[1] \/ (p[1] = r[1] /\ p[2] <= r[2])

\* C27: within one frame the resolver tests overlap on the positions and
\* velocities the stepper of that frame produced, not on the state the
\* previous frame left, and the state committed for the frame is the
\* resolver's output: a pair is resolved exactly when the stepper's output
\* has an overlapping pair, the first pair resolved is the first overlapping
\* pair of that output, and the committed sprites are that output with the
\* resolver applied (the output itself when nothing overlaps).
C27_ResolverSeesStepperOutput ==
    lastOp = "animate" =>
        /\ pass.stepped = Stepper(prev.sprites, pass.delta)
        /\ (pass.hit = <<>>) = (Overlaps(pass.stepped) = {})
        /\ pass.hit # <<>> => pass.hit[1] = FirstPair(Overlaps(pass.stepped))
        /\ pass.hit = <<>> => sprites = pass.stepped
        /\ sprites = handleCollisions(pass.stepped, prev.actionBlocks,
                                      prev.actionBlocks, now).sp

\* a frame whose stepper moved a pair into overlap: the pair did not overlap
\* in the state the previous frame left, and the frame resolved it
C27_Witness ==
    /\ lastOp = "animate" /\ pass.hit # <<>>
    /\ pass.hit[1] \notin Overlaps(prev.sprites)
    /\ pass.hit[1] \in Overlaps(pass.stepped)
    /\ sprites # pass.stepped

-----------------------------------------------------------------------------
(* Separation of an overlapping pair                                       *)

\* the distance between two centres, as Separate computes it
Distance(s1, s2) ==
    ISqrt((s2.x - s1.x) * (s2.x - s1.x) + (s2.y - s1.y) * (s2.y - s1.y),
          Abs(s2.x - s1.x) + Abs(s2.y - s1.y))

\* What the truncations of the fixed-point arithmetic can add up to on the
\* length after a push: the integer square root is up to one step short of
\* d, which the factor minDistance / d magnifies, and the two shifts and the
\* final square root lose up to four steps.
Slack(d, minDistance) == minDistance \div d + 4

\* C28: when the centre distance d of an overlapping pair satisfies
\* 0 < d < minimum separation (the half-sum of the two sides), after the
\* resolution the centre distance is the minimum separation and the two
\* sprites have been displaced by equal and opposite vectors along the line
\* of the centres (the midpoint is unchanged); when d >= minimum separation
\* no position is changed.
C28_SeparationGeometry ==
    OnePair =>
        LET a == pass.stepped[PairA]
            b == pass.stepped[PairB]
            a2 == sprites[PairA]
            b2 == sprites[PairB]
            dx == b.x - a.x
            dy == b.y - a.y
            d == Distance(a, b)
            minDistance == HalfSum(a, b)
        IN /\ (0 < d /\ d < minDistance) =>
                /\ Abs(Distance(a2, b2) - minDistance) <= Slack(d, minDistance)
                /\ a2.x - a.x = 0 - (b2.x - b.x)
                /\ a2.y - a.y = 0 - (b2.y - b.y)
                /\ a2.x + b2.x = a.x + b.x
                /\ a2.y + b2.y = a.y + b.y
                /\ Abs((b2.x - b.x) * dy - (b2.y - b.y) * dx) <= Abs(dx) + Abs(dy)
                /\ (b2.x - b.x) * dx + (b2.y - b.y) * dy >= 0
           /\ d >= minDistance =>
                /\ a2.x = a.x /\ a2.y = a.y
                /\ b2.x = b.x /\ b2.y = b.y

\* a pair off the axes, closer than the minimum separation, has been pushed
\* apart
C28_Witness ==
    /\ OnePair
    /\ pass.stepped[PairA].x # pass.stepped[PairB].x
    /\ pass.stepped[PairA].y # pass.stepped[PairB].y
    /\ Distance(pass.stepped[PairA], pass.stepped[PairB])
          < HalfSum(pass.stepped[PairA], pass.stepped[PairB])
    /\ sprites[PairA].x # pass.stepped[PairA].x
    /\ sprites[PairB].y # pass.stepped[PairB].y
    /\ Distance(sprites[PairA], sprites[PairB]) > Distance(pass.stepped[PairA], pass.stepped[PairB])

-----------------------------------------------------------------------------
(* Coming to rest                                                          *)

\* Playback has just been started on a sprite that owns a queue of move-by
\* and rotate-by blocks, and a second sprite far from it that owns a
\* move-by-x block or nothing.
RestKinds ==
    {ActBlock(a.type, a.value, Undefined, Undefined) :
        a \in {p \in Palette : p.type \in {"moveX", "moveY", "turn"} /\ p.value > 0}}
RestQueues == UNION {[1..n -> RestKinds] : n \in 1..MaxActLen}

InitRest ==
    \E q1 \in RestQueues, q2 \in {<<>>, MoveBlock("moveX", 100 * Unit)} :
        JustStarted(<<NewSprite(1, SpawnLo * Unit, SpawnLo * Unit),
                      NewSprite(2, (SpawnLo + SpawnSpan) * Unit, (SpawnLo + SpawnSpan) * Unit)>>,
                    BlocksOf(<<[q |-> q1], [q |-> q2]>>, 1), TickMs)

\* The browser runs a timer callback once it is due, runs the frame callback
\* at every refresh, and time passes.
FairAct ==
    /\ WF_vars(\E f \in frames : animate(f))
    /\ WF_vars(fireTimer(SpawnLo * Unit, SpawnLo * Unit))
    /\ WF_vars(tick((MaxActLen + 2) * TimeUnit))

SpecRest == InitRest /\ [][NextAct]_vars /\ FairAct

\* every sprite that owns a non-empty queue is at rest
QueuedAtRest ==
    \A k \in 1..Len(sprites) :
        Get(actionBlocks, sprites[k].id) # <<>> => AtRest(sprites[k])

\* C29: when playback is started on finite queues and stays on, with no
\* collision and no queue edit, every sprite with a non-empty queue
\* eventually has velocity (0, 0) and isAnimating false, and keeps that
\* state from then on.
C29_ComesToRest == <>[]QueuedAtRest

\* the stop timer has just run on a sprite that was moving, away from where
\* it started, and no timer is left
C29_Witness ==
    /\ lastOp = "stop" /\ isPlaying
    /\ LastTimer.id \in SpriteIds(prev.sprites)
    /\ prev.sprites[FiredAt].isAnimating
    /\ prev.sprites[FiredAt].velocityX # 0
    /\ prev.sprites[FiredAt].x # SpawnLo * Unit
    /\ timers = <<>>
    /\ Cardinality({k \in 1..Len(sprites) : Get(actionBlocks, sprites[k].id) # <<>>}) = 2
    /\ QueuedAtRest

-----------------------------------------------------------------------------
(* The frame loop                                                          *)

\* C30: while playing, exactly one frame callback is outstanding at any
\* time (the one the ref holds), also after the frame-loop effect has been
\* re-run because the store of queues changed (a drop, a removal, a
\* collision swap): two chains of frame callbacks are never alive at once.
C30_OneFrameChain ==
    isPlaying =>
        /\ Cardinality(frames) = 1
        /\ \A f \in frames : f.h = animationFrameRef

\* a frame that exchanged two queues has re-run the frame-loop effect: the
\* one callback outstanding is the one of the new run
C30_Witness ==
    /\ lastOp = "animate" /\ isPlaying
    /\ pass.hit # <<>>
    /\ actionBlocks # prev.actionBlocks
    /\ Cardinality(prev.frames) = 1
    /\ Cardinality(frames) = 1
    /\ \A f \in frames : f.closure = actionBlocks /\ f.lastTime = now

-----------------------------------------------------------------------------
(* Authoring: on an application that is not playing, with no, one or two   *)
(* sprites already added, sprites are added, payloads are dropped on the   *)
(* sprites' action zones, blocks are removed, and time passes.             *)

\* Math.random() is a fraction r / RandomDen with 0 <= r < RandomDen
RandomDen == 100 * Unit
\* Math.random() * 400 + 100
SpawnWideMut(r) == SpawnLo * Unit + (r * (SpawnSpan + 1) * Unit) \div RandomDen
Spawn(r) == SpawnLo * Unit + (r * SpawnSpan * Unit) \div RandomDen
\* the pairs of draws followed (x, then y): the least and the greatest values
RandomDraws == {<<0, 0>>, <<RandomDen \div 20, RandomDen - 1>>, <<RandomDen - 1, 0>>}

\* What a drop event carries as 'application/json': the JSON of an object
\* with a type and a value (the palette's payloads), the JSON of a value
\* without these fields ("{}", "5"), the JSON "null", or a text that is not
\* JSON (the "" that getData gives when a sprite is dragged onto the zone
\* is one)
Payloads ==
    {[form |-> "object", type |-> a.type, value |-> a.value] : a \in PaletteUsed}
    \cup {[form |-> f, type |-> "undefined", value |-> Undefined] :
             f \in {"bare", "null", "garbage"}}

\* JSON.parse returns (it throws a SyntaxError otherwise)
Parses(p) == p.form \in {"object", "bare", "null"}
\* actionData.type can be read (reading a field of null throws a TypeError)
Readable(p) == p.form # "null"
\* what newAction takes from actionData: a missing field reads as undefined
ActionData(p) ==
    IF p.form = "object" THEN [type |-> p.type, value |-> p.value]
    ELSE [type |-> "undefined", value |-> Undefined]

\* the name under which the history records a drop of the payload p
DropOp(p) ==
    CASE p.form = "object" -> "dropObject"
      [] p.form = "bare" -> "dropBare"
      [] p.form = "null" -> "dropNull"
      [] OTHER -> "dropGarbage"

\* the end of the try block: newAction is appended to the queue of the id
\* and the effects run
Appended(id, p) ==
    /\ UserOp
    /\ id \in SpriteIds(sprites)
    /\ actionBlocks' = Put(actionBlocks, id,
                           Append(Get(actionBlocks, id),
                                  [id |-> now, type |-> ActionData(p).type,
                                   value |-> ActionData(p).value]))
    /\ RunEffects(frames, animationFrameRef, timers, isPlaying, actionBlocks')
    /\ Record(DropOp(p))
    /\ pass' = NoPass
    /\ UNCHANGED <<sprites, selectedSprite, isPlaying, now, fired>>

onDropLooseMut(id, p) == Appended(id, p)
\* onDrop={(e) => handleActionDrop(e, sprite.id)}: the try block, and the
\* catch that logs and leaves the state alone
onDrop(id, p) ==
    IF Parses(p) /\ Readable(p)
    THEN Appended(id, p)
    ELSE /\ UserOp
         /\ id \in SpriteIds(sprites)
         /\ Record(DropOp(p))
         /\ pass' = NoPass
         /\ UNCHANGED <<sprites, selectedSprite, isPlaying, actionBlocks, animationFrameRef,
                        frames, timers, now, fired>>

\* the sprites added before: none, one or two, at different clock readings
AuthorSprites ==
    <<NewSprite(1, Spawn(0), Spawn(0)), NewSprite(2, Spawn(RandomDen - 1), Spawn(0))>>

InitAuthor ==
    \E n \in 0..2 :
        /\ sprites = SubSeq(AuthorSprites, 1, n)
        /\ selectedSprite = IF n = 0 THEN NoId ELSE n
        /\ isPlaying = FALSE
        /\ actionBlocks = <<>>
        /\ animationFrameRef = Undefined
        /\ frames = {}
        /\ timers = <<>>
        /\ now = TickMs
        /\ userOps = 0
        /\ lastOp = "init"
        /\ prev = [sprites |-> SubSeq(AuthorSprites, 1, n), actionBlocks |-> <<>>,
                   isPlaying |-> FALSE, selectedSprite |-> IF n = 0 THEN NoId ELSE n,
                   timers |-> <<>>, frames |-> {}, now |-> TickMs, fired |-> NoFired]
        /\ pass = NoPass
        /\ fired = NoFired

NextAuthor ==
    \/ \E r \in RandomDraws :
          Len(sprites) < Len(AuthorSprites) /\ addSprite(Spawn(r[1]), Spawn(r[2]))
    \/ \E id \in SpriteIds(sprites) : \E p \in Payloads :
          Len(Get(actionBlocks, id)) < MaxDropLen /\ onDrop(id, p)
    \/ \E id \in SpriteIds(sprites) : \E k \in 1..Len(Get(actionBlocks, id)) :
          removeAction(id, Get(actionBlocks, id)[k].id)
    \/ tick(TimeUnit)

SpecAuthor == InitAuthor /\ [][NextAuthor]_vars

\* the drops by what JSON.parse does with the payload
UnparsedOps == {"dropGarbage"}
ParsedOps == {"dropObject", "dropBare", "dropNull"}

\* exactly one block was appended at the end of one queue, the others kept
OneAppended ==
    \E id \in SpriteIds(prev.sprites) :
        /\ Len(Get(actionBlocks, id)) = Len(Get(prev.actionBlocks, id)) + 1
        /\ SubSeq(Get(actionBlocks, id), 1, Len(Get(prev.actionBlocks, id)))
              = Get(prev.actionBlocks, id)
        /\ \A k \in (Keys(actionBlocks) \cup Keys(prev.actionBlocks)) \ {id} :
              Get(actionBlocks, k) = Get(prev.actionBlocks, k)

\* C31 as stated: a drop whose payload fails to parse leaves the store of
\* queues unchanged, and a drop whose payload parses appends exactly one
\* block at the end of the target's queue and changes no other queue.
C31_DropAsStated ==
    /\ lastOp \in UnparsedOps => actionBlocks = prev.actionBlocks
    /\ lastOp \in ParsedOps => OneAppended

\* C31 amended: a drop whose payload fails to parse, or parses to null,
\* leaves the store of queues unchanged; a drop whose payload parses to
\* anything else appends exactly one block at the end of the target's queue
\* and changes no other queue.
C31_DropParsed ==
    /\ lastOp \in UnparsedOps \cup {"dropNull"} => actionBlocks = prev.actionBlocks
    /\ lastOp \in ParsedOps \ {"dropNull"} => OneAppended

\* the JSON "null" was dropped on a sprite that owns a queue next to
\* another sprite's queue: both queues are kept as they were
C31_Witness ==
    /\ lastOp = "dropNull"
    /\ Len(prev.actionBlocks) = 2
    /\ \E e \in 1..Len(prev.actionBlocks) : prev.actionBlocks[e].q # <<>>
    /\ actionBlocks = prev.actionBlocks

\* C32: addSprite appends exactly one sprite, with x and y each in
\* [100, 500) px, velocity (0, 0), size 1, direction 0, empty saying and
\* isAnimating false, leaves every existing sprite and every action queue
\* unchanged, and makes the new sprite the selected one.
C32_AddSprite ==
    lastOp = "addSprite" =>
        LET n == Len(prev.sprites)
            s == sprites[Len(sprites)]
        IN /\ Len(sprites) = n + 1
           /\ SubSeq(sprites, 1, n) = prev.sprites
           /\ SpawnLo * Unit <= s.x /\ s.x < (SpawnLo + SpawnSpan) * Unit
           /\ SpawnLo * Unit <= s.y /\ s.y < (SpawnLo + SpawnSpan) * Unit
           /\ s.velocityX = 0 /\ s.velocityY = 0
           /\ s.size = Unit /\ s.direction = 0
           /\ s.saying = "" /\ ~s.isAnimating
           /\ actionBlocks = prev.actionBlocks
           /\ selectedSprite = s.id

\* a sprite has been added at the far end of the range, next to a sprite
\* that owns a queue and was the selected one
C32_Witness ==
    /\ lastOp = "addSprite"
    /\ Len(prev.sprites) = 1
    /\ prev.actionBlocks # <<>>
    /\ prev.selectedSprite = prev.sprites[1].id
    /\ sprites[2].y = Spawn(RandomDen - 1)
    /\ selectedSprite = sprites[2].id

\* the queue q with the single element at position k taken out
DropAt(q, k) == SubSeq(q, 1, k - 1) \o SubSeq(q, k + 1, Len(q))

\* C38: removeAction(spriteId, actionId) removes exactly one action block
\* from that sprite's queue, keeps the remaining blocks in their original
\* relative order and leaves every other sprite's queue unchanged, for any
\* queue built by action drops, drops at the same clock reading included.
C38_RemovesExactlyOne ==
    lastOp = "removeAction" =>
        \E id \in Keys(prev.actionBlocks) :
            /\ \E k \in 1..Len(Get(prev.actionBlocks, id)) :
                   Get(actionBlocks, id) = DropAt(Get(prev.actionBlocks, id), k)
            /\ \A other \in Keys(prev.actionBlocks) \ {id} :
                   Get(actionBlocks, other) = Get(prev.actionBlocks, other)

\* how many of the sprites own the queue q in the store b
Owners(b, sp, q) == Cardinality({id \in SpriteIds(sp) : Get(b, id) = q})
\* the queues the sprites own in the store b
QueuesHeld(b, sp) == {Get(b, id) : id \in SpriteIds(sp)}

\* C33: collision resolution only permutes the action queues among the
\* sprites: after any frame, frames in which one sprite overlaps two or more
\* others included, the multiset of queues in the store equals the multiset
\* before the frame; no queue is lost and none is duplicated.
C33_QueuesPermuted ==
    lastOp = "animate" =>
        \A q \in QueuesHeld(prev.actionBlocks, sprites) \cup QueuesHeld(actionBlocks, sprites) :
            Owners(actionBlocks, sprites, q) = Owners(prev.actionBlocks, sprites, q)

\* C34: sequencer timers do not accumulate across triggers: at any time at
\* most one action timer is pending per (sprite id, queue index), so that a
\* re-trigger never has the same queued action applied twice by overlapping
\* schedules.
C34_OneTimerPerSlot ==
    \A k \in 1..Len(timers) : \A m \in 1..Len(timers) :
        (/\ k # m
         /\ timers[k].kind = "action"
         /\ timers[m].kind = "action"
         /\ timers[k].id = timers[m].id)
        => timers[k].index # timers[m].index

\* Two sprites close enough to collide on the first frames of a run; the
\* first owns a queue of up to MaxActLen blocks, the second at most one.
SwapQueues == {<<>>} \cup {<<k>> : k \in RestKinds}

InitSwap ==
    \E dx \in PairOffsets, q1 \in RestQueues, q2 \in SwapQueues :
        JustStarted(<<NewSprite(1, PairCentre, PairCentre),
                      NewSprite(2, PairCentre + dx, PairCentre)>>,
                    BlocksOf(<<[q |-> q1], [q |-> q2]>>, 1), TickMs)

SpecSwap == InitSwap /\ [][NextTriple]_vars

\* C35: after a collision has swapped the queues of sprites A and B, every
\* action applied to A belongs to the queue A owns at the moment the action
\* fires; no timer scheduled before the swap applies a block of the queue A
\* owned before it. No authoring operation occurs in SpecSwap, so the store
\* changes by swaps only and a fired block that is not in its sprite's queue
\* at its index comes from a schedule older than a swap.
C35_FiredFromOwnQueue ==
    ActionFired =>
        LET q == Get(prev.actionBlocks, LastTimer.id)
        IN /\ LastTimer.index + 1 <= Len(q)
           /\ q[LastTimer.index + 1].type = LastTimer.type
           /\ q[LastTimer.index + 1].value = LastTimer.value

\* Play, let the timers run, stop and play again: no authoring operation.
NextReplay ==
    \/ userOps < MaxSeqOps + 1 /\ togglePlay
    \/ \E f \in frames : animate(f)
    \/ fireTimer(SpawnLo * Unit, SpawnLo * Unit)
    \/ tick((MaxActLen + 2) * TimeUnit)

SpecReplay == InitRest /\ [][NextReplay]_vars

\* the timers registered by the last step
Registered == SubSeq(timers, Len(prev.timers) + 1, Len(timers))
\* the number of blocks in the store b
RECURSIVE Blocks(_)
Blocks(b) == IF b = <<>> THEN 0 ELSE Len(Head(b).q) + Blocks(Tail(b))

\* a timer firing, a frame without collision and a play or stop leave the
\* action-queue store as it was
C36_StoreKept ==
    (\/ lastOp \in {"action", "stop", "clear", "togglePlay", "tick"}
     \/ (lastOp = "animate" /\ pass.hit = <<>>))
    => actionBlocks = prev.actionBlocks

\* a play registers one timer for every block of every queue, from index 0,
\* one time unit apart
C36_FullSchedule ==
    (lastOp = "togglePlay" /\ isPlaying) =>
        /\ Len(timers) = Len(prev.timers) + Blocks(actionBlocks)
        /\ \A id \in Keys(actionBlocks) : \A i \in 1..Len(Get(actionBlocks, id)) :
              \E k \in 1..Len(Registered) :
                  /\ Registered[k].kind = "action"
                  /\ Registered[k].id = id
                  /\ Registered[k].index = i - 1
                  /\ Registered[k].type = Get(actionBlocks, id)[i].type
                  /\ Registered[k].value = Get(actionBlocks, id)[i].value
                  /\ Registered[k].due = now + (i - 1) * TimeUnit

\* C36: running the sequencer does not consume the program: without a
\* collision and without an authoring operation the action-queue store after
\* all timers of a run have fired equals the store at the trigger, and
\* stopping and playing again schedules the same full queues from index 0.
C36_ProgramNotConsumed == C36_StoreKept /\ C36_FullSchedule

\* played again after a run whose timers have all fired: the first sprite
\* has been turned by its two-block queue, which is scheduled in full
C36_Witness ==
    /\ lastOp = "togglePlay"
    /\ isPlaying
    /\ prev.timers = <<>>
    /\ sprites[1].direction # 0
    /\ Len(Get(actionBlocks, 1)) = MaxActLen
    /\ Len(timers) = Blocks(actionBlocks)

\* Two sprites at the top wall: the first on the wall, the second one or two
\* grid steps below it, each of size 1 or 2 and owning at most one move block.
WallRows == {PairStride, 2 * PairStride}
WallQueues ==
    {<<>>} \cup {MoveBlock(a.type, a.value) : a \in {p \in Palette : p.type \in {"moveX", "moveY"}}}

InitWall ==
    \E dy \in WallRows, sz1 \in PairSizes, sz2 \in PairSizes,
       q1 \in WallQueues, q2 \in WallQueues :
        JustStarted(<<[NewSprite(1, PairCentre, 0) EXCEPT !.size = sz1],
                      [NewSprite(2, PairCentre, dy) EXCEPT !.size = sz2]>>,
                    BlocksOf(<<[q |-> q1], [q |-> q2]>>, 1), TickMs)

SpecWall == InitWall /\ [][NextTriple]_vars

\* the velocity v of a sprite standing at p points away from the wall it
\* stands at, into the stage of extent limit
Inward(p, v, limit) == (p <= 0 => v > 0) /\ (p >= limit => v < 0)

\* the stepper has negated the velocity v of an animating sprite
Negated(s, v, w) == s.isAnimating /\ v # 0 /\ ~IsNaN(v) /\ w = 0 - v

\* C37: the stepper never reverses a velocity that points into the stage:
\* whenever a tick negates the non-zero axis velocity of an animating sprite,
\* the velocity after the tick points toward the interior of the stage on
\* that axis.
C37_BounceTurnsInward ==
    lastOp = "animate" =>
        \A k \in 1..Len(prev.sprites) :
            LET s == prev.sprites[k]
                t == pass.stepped[k]
            IN /\ Negated(s, s.velocityX, t.velocityX)
                  => Inward(t.x, t.velocityX, StageWidth)
               /\ Negated(s, s.velocityY, t.velocityY)
                  => Inward(t.y, t.velocityY, StageHeight)

====
